---- MODULE Spec2Model ----
(***************************************************************************)
(* Model of espipe's Elasticsearch output (src/src/output/elasticsearch.rs *)
(* and src/src/output/elasticsearch/bulk_response.rs): the queue, the      *)
(* flush that spawns one bulk task per batch, the retry loop of a task,    *)
(* and close(), which joins every task and sums the counts.                *)
(***************************************************************************)
EXTENDS Integers, Sequences, FiniteSets, TLC

\* ------------------------------------------------------------------ bounds

\* Longest batch handed to build_bulk_operations in the encoding
\* specification.
MaxBatch == 3

\* Longest items array in the response specification.
MaxResponseItems == 3

\* static BATCH_SIZE: usize = 5_000, scaled down.
BATCH_SIZE == 2

\* Documents the input can supply before it is exhausted.
MaxDocs == 5

\* 429 responses the store gives over a run of the engine specification.
EngineThrottles == 1

\* 429 responses the store gives to the task of the task specification.
MaxThrottles == 7

\* Longest items array of a bulk response.
MaxItems == 2

\* ------------------------------------------------------------- documents

\* A serde_json::Value as the output reads it: its shape, its "_id" member
\* (absent, a string, a number) and the rest of its content.
IdAbsent == [t |-> "absent", v |-> 0]

IdString(n) == [t |-> "string", v |-> n]

IdNumber(n) == [t |-> "number", v |-> n]

ObjectDoc(id, n) == [shape |-> "object", id |-> id, message |-> n]

ArrayDoc(n) == [shape |-> "array", id |-> IdAbsent, message |-> n]

\* Every kind of document in the i-th place: an object with the string
\* _id i, an object without _id, an object with the number i as _id, an
\* array.
EncodeDocs(i) ==
  {ObjectDoc(IdString(i), i), ObjectDoc(IdAbsent, i), ObjectDoc(IdNumber(i), i),
   ArrayDoc(i)}

\* The documents the n-th submit may carry in the engine specification.
InputDocs(n) == {ObjectDoc(IdString(n), n), ObjectDoc(IdAbsent, n)}

\* ---------------------------------------------------------- BulkAction

BulkActions == {"Create", "Index", "Update"}

\* ------------------------------------------------------------- encoding

Ok(v) == [ok |-> TRUE, val |-> v, err |-> ""]

Err(e) == [ok |-> FALSE, val |-> 0, err |-> e]

\* Mutant of extract_update_id: the _id is read but left in the document.
extract_update_id_keeping(doc) ==
  IF doc.shape = "object"
  THEN IF doc.id.t = "absent"
       THEN [ok |-> FALSE, val |-> 0,
             err |-> "Update action requires an _id field on each document"]
       ELSE IF doc.id.t # "string"
            THEN [ok |-> FALSE, val |-> 0,
                  err |-> "Update action requires _id to be a string"]
            ELSE [ok |-> TRUE, val |-> [id |-> doc.id, doc |-> doc], err |-> ""]
  ELSE [ok |-> FALSE, val |-> 0,
        err |-> "Update action requires each document to be a JSON object"]

\* extract_update_id: the id and the document without its _id.
extract_update_id(doc) ==
  IF doc.shape = "object"
  THEN IF doc.id.t = "absent"
       THEN Err("Update action requires an _id field on each document")
       ELSE IF doc.id.t # "string"
            THEN Err("Update action requires _id to be a string")
            ELSE [ok |-> TRUE,
                  val |-> [id |-> doc.id, doc |-> [doc EXCEPT !.id = IdAbsent]],
                  err |-> ""]
  ELSE Err("Update action requires each document to be a JSON object")

\* A BulkOperation: the action line (header) and the source line.
BulkOp(kind, id, wrapped, source) ==
  [action |-> kind, id |-> id, wrapped |-> wrapped, source |-> source]

\* Mutant of update_operation_from_doc: the action line carries no _id.
update_operation_without_id(doc) ==
  LET r == extract_update_id(doc)
  IN  IF r.ok
      THEN [ok |-> TRUE,
            val |-> BulkOp("update", IdAbsent, TRUE, r.val.doc),
            err |-> ""]
      ELSE Err(r.err)

update_operation_from_doc(doc) ==
  LET r == extract_update_id(doc)
  IN  IF r.ok
      THEN [ok |-> TRUE,
            val |-> BulkOp("update", r.val.id, TRUE, r.val.doc),
            err |-> ""]
      ELSE Err(r.err)

encode_one(action, doc) ==
  CASE action = "Create" ->
         [ok |-> TRUE, val |-> BulkOp("create", IdAbsent, FALSE, doc), err |-> ""]
    [] action = "Index" ->
         [ok |-> TRUE, val |-> BulkOp("index", IdAbsent, FALSE, doc), err |-> ""]
    [] action = "Update" -> update_operation_from_doc(doc)

\* Mutant of build_bulk_operations: the operations come out last document
\* first.
RECURSIVE build_bulk_operations_reversed(_, _)
build_bulk_operations_reversed(action, docs) ==
  IF docs = <<>>
  THEN [ok |-> TRUE, val |-> <<>>, err |-> ""]
  ELSE LET first == encode_one(action, Head(docs))
       IN  IF ~first.ok
           THEN [ok |-> FALSE, val |-> <<>>, err |-> first.err]
           ELSE LET rest == build_bulk_operations_reversed(action, Tail(docs))
                IN  IF rest.ok
                    THEN [ok |-> TRUE, val |-> rest.val \o <<first.val>>, err |-> ""]
                    ELSE rest

\* Mutant of build_bulk_operations: a document that cannot be encoded is
\* left out and the rest of the batch is kept.
RECURSIVE build_bulk_operations_skipping(_, _)
build_bulk_operations_skipping(action, docs) ==
  IF docs = <<>>
  THEN [ok |-> TRUE, val |-> <<>>, err |-> ""]
  ELSE LET first == encode_one(action, Head(docs))
           rest == build_bulk_operations_skipping(action, Tail(docs))
       IN  IF first.ok
           THEN [ok |-> TRUE, val |-> <<first.val>> \o rest.val, err |-> ""]
           ELSE rest

\* docs.into_iter().map(..).collect::<Result<Vec<_>>>(): the first error
\* is the result and nothing of the batch is kept.
RECURSIVE build_bulk_operations(_, _)
build_bulk_operations(action, docs) ==
  IF docs = <<>>
  THEN [ok |-> TRUE, val |-> <<>>, err |-> ""]
  ELSE LET first == encode_one(action, Head(docs))
       IN  IF ~first.ok
           THEN [ok |-> FALSE, val |-> <<>>, err |-> first.err]
           ELSE LET rest == build_bulk_operations(action, Tail(docs))
                IN  IF rest.ok
                    THEN [ok |-> TRUE, val |-> <<first.val>> \o rest.val, err |-> ""]
                    ELSE rest

\* The lines BulkOperation::write gives for one operation, as the tests read
\* them: the action line {"<key>": {"_id": id}} (no _id unless the operation
\* was built with one) and the source line, which for an update is
\* {"doc": <document>}.
bulk_operation_lines(op) ==
  <<[line |-> "action", key |-> op.action, id |-> op.id],
    [line |-> "source", wrapped |-> op.wrapped, doc |-> op.source]>>

\* The body of one bulk call: the lines of its operations, in order.
RECURSIVE bulk_body_lines(_)
bulk_body_lines(ops) ==
  IF ops = <<>>
  THEN <<>>
  ELSE bulk_operation_lines(Head(ops)) \o bulk_body_lines(Tail(ops))

\* ------------------------------------------------------------ responses

\* The "error" member of an item: absent, an object with "caused_by"
\* {type, reason}, or an object without "caused_by".
NoError == [present |-> FALSE, caused_by |-> FALSE, type |-> "", reason |-> ""]

CausedBy(type, reason) ==
  [present |-> TRUE, caused_by |-> TRUE, type |-> type, reason |-> reason]

BareError == [present |-> TRUE, caused_by |-> FALSE, type |-> "", reason |-> ""]

\* One element of "items": the key of its single member and that member's
\* _index, status and error.
BulkResponseItem(key, index, status, error) ==
  [key |-> key, index |-> index, status |-> status, error |-> error]

\* An item of the index "logs", with or without an error that has a cause.
Item(key, status, error) ==
  BulkResponseItem(key, "logs", status,
                   IF error THEN CausedBy("version_conflict", "exists") ELSE NoError)

StoreItems ==
  {Item("create", 201, FALSE), Item("create", 409, TRUE), Item("index", 200, FALSE),
   Item("update", 200, FALSE)}

RECURSIVE SeqsUpTo(_, _)
SeqsUpTo(S, n) ==
  IF n = 0
  THEN {<<>>}
  ELSE LET shorter == SeqsUpTo(S, n - 1)
       IN  shorter \cup {Append(s, x) : s \in {q \in shorter : Len(q) = n - 1}, x \in S}

\* A response body: json is whether it deserializes as a BulkResponse at
\* all; errors is the top-level flag ("absent", "true", "false"); hasItems
\* is whether "items" is present.
Body(json, errors, hasItems, items) ==
  [json |-> json, errors |-> errors, hasItems |-> hasItems, items |-> items]

NotJson == Body(FALSE, "absent", FALSE, <<>>)

StoreBodies ==
  {NotJson, Body(TRUE, "absent", FALSE, <<>>)}
    \cup {Body(TRUE, e, TRUE, s) : e \in {"true", "false"}, s \in SeqsUpTo(StoreItems, MaxItems)}

StatusCodes == {200, 201, 400, 429, 503}

BAD_REQUEST == 400

TOO_MANY_REQUESTS == 429

\* The items enum of bulk_response.rs is untagged with the variants
\* Create {create} and Index {index}: an item under any other key matches
\* no variant and fails the whole deserialization. So does an error object
\* without caused_by, a required field of ResponseError.
ItemDecodes(item) ==
  /\ item.key \in {"create", "index"}
  /\ item.error.present => item.error.caused_by

\* response.json::<BulkResponse>()
Decodes(body) ==
  /\ body.json
  /\ \A i \in 1..Len(body.items) : ItemDecodes(body.items[i])

\* Mutant of is_success: a create is accepted with status 200 as well.
is_success_ok_class(item) ==
  CASE item.key = "create" -> item.status = 200 \/ item.status = 201
    [] item.key = "index" -> item.status = 200 \/ item.status = 201
    [] OTHER -> FALSE

\* BulkAction::is_success
is_success(item) ==
  CASE item.key = "create" -> item.status = 201
    [] item.key = "index" -> item.status = 200 \/ item.status = 201
    [] OTHER -> FALSE

\* BulkResponse::success_count
RECURSIVE CountSuccess(_)
CountSuccess(items) ==
  IF items = <<>>
  THEN 0
  ELSE (IF is_success(Head(items)) THEN 1 ELSE 0) + CountSuccess(Tail(items))

success_count(body) == IF body.hasItems THEN CountSuccess(body.items) ELSE 0

\* BulkResponse::has_errors
has_errors(body) == body.errors = "true"

\* BulkAction::error_type: Display of ResponseError, "{type} - {reason}".
error_type(item) == <<item.error.type, " - ", item.error.reason>>

\* BulkAction::error_message: "<{index}> {error_type}", for an item that
\* has an error.
error_message(item) == <<"<", item.index, "> ">> \o error_type(item)

\* Mutant of error_types: the items' errors are tallied whatever the
\* errors flag says.
error_types_unflagged(body) ==
  IF body.hasItems
  THEN LET failing == {i \in 1..Len(body.items) : body.items[i].error.present}
       IN  {[k |-> m,
             v |-> Cardinality({i \in failing : error_message(body.items[i]) = m})] :
              m \in {error_message(body.items[i]) : i \in failing}}
  ELSE {}

\* The HashMap error_counts fills: one entry per distinct error message,
\* with the number of items that have it; empty unless errors is true and
\* items is present.
error_types(body) ==
  IF body.errors = "true" /\ body.hasItems
  THEN LET failing == {i \in 1..Len(body.items) : body.items[i].error.present}
       IN  {[k |-> m,
             v |-> Cardinality({i \in failing : error_message(body.items[i]) = m})] :
              m \in {error_message(body.items[i]) : i \in failing}}
  ELSE {}

\* The sequences that hold every element of S once.
Orderings(S) ==
  {o \in [1..Cardinality(S) -> S] : \A x \in S : \E i \in 1..Cardinality(S) : o[i] = x}

\* BulkResponse::error_counts: the entries "({v}) {k}" joined by ", ", in
\* the iteration order of the HashMap, which is any order. The set of the
\* strings it can give, each as the sequence of its entries.
error_counts(body) == Orderings(error_types(body))

\* ------------------------------------------------------------------ state

VARIABLES
  action,     \* ElasticsearchOutput.action, fixed at construction
  queue,      \* ElasticsearchOutput.queue
  futures,    \* ElasticsearchOutput.futures: one entry per spawned task
  mainpc,     \* the caller: "open", "joining" (in close, at join_all), "closed"
  submitted,  \* history: the documents passed to send, in order
  sendRet,    \* what the last send returned
  closeRet,   \* what close returned
  throttles,  \* 429 responses the store has given so far
  probe       \* the function under test and its result, in the function
              \* specifications; NoProbe in the others

vars ==
  <<action, queue, futures, mainpc, submitted, sendRet, closeRet, throttles, probe>>

NoProbe == [kind |-> "none"]

NoReturn == [ok |-> FALSE, val |-> 0, err |-> "not returned"]

\* A task's JoinHandle output: pending, Ok(Ok(count)), Ok(Err(e)) or
\* Err(JoinError).
Pending == [tag |-> "pending", count |-> 0]

TaskOk(n) == [tag |-> "ok", count |-> n]

TaskErr == [tag |-> "err", count |-> 0]

TaskPanicked == [tag |-> "panic", count |-> 0]

\* No response received yet.
NoLast ==
  [kind |-> "none", status |-> 0, decoded |-> FALSE, errors |-> FALSE,
   accepted |-> 0, updated |-> 0]

\* The state of the async block spawned by flush when it is created:
\* attempt = 0, backoff = 1 s. calls, slept, hist, last, payload and error
\* are history: the HTTP calls made, the delays slept, the statuses
\* received, a summary of the last outcome, the operations of the last call
\* and the message of the encoding error that ended the task.
NewTask(docs) ==
  [docs |-> docs, pc |-> "ready", attempt |-> 0, backoff |-> 1,
   result |-> Pending, calls |-> 0, slept |-> <<>>, hist |-> <<>>,
   last |-> NoLast, payload |-> <<>>, error |-> ""]

max_backoff == 30

Min(a, b) == IF a < b THEN a ELSE b

\* Mutant of next_backoff: the doubling is not capped.
next_backoff_uncapped(backoff) == backoff * 2

\* if backoff < max_backoff { backoff = min(backoff * 2, max_backoff) }
next_backoff(backoff) ==
  IF backoff < max_backoff THEN Min(backoff * 2, max_backoff) ELSE backoff

\* ElasticsearchOutput::try_new: an empty queue and no task.
Constructed ==
  /\ action \in BulkActions
  /\ queue = <<>>
  /\ futures = <<>>
  /\ mainpc = "open"
  /\ submitted = <<>>
  /\ sendRet = NoReturn
  /\ closeRet = NoReturn
  /\ throttles = 0

Init == Constructed /\ probe = NoProbe

\* ------------------------------------------------------------ the caller

\* flush: let batch_size = min(queue.len(), BATCH_SIZE)
flush_batch_size(q) == IF Len(q) >= BATCH_SIZE THEN BATCH_SIZE ELSE Len(q)

\* Mutant of flush: the first document of the batch is dropped.
flush_dropping(q, fs) ==
  LET n == flush_batch_size(q)
  IN  [queue |-> SubSeq(q, n + 1, Len(q)),
       futures |-> Append(fs, NewTask(SubSeq(q, 2, n)))]

\* Mutant of flush: no task is spawned for an empty queue.
flush_nonempty(q, fs) ==
  LET n == flush_batch_size(q)
  IN  IF q = <<>>
      THEN [queue |-> q, futures |-> fs]
      ELSE [queue |-> SubSeq(q, n + 1, Len(q)),
            futures |-> Append(fs, NewTask(SubSeq(q, 1, n)))]

\* Mutant of flush: the batch is copied and stays in the queue.
flush_keeping(q, fs) ==
  LET n == flush_batch_size(q)
  IN  [queue |-> q, futures |-> Append(fs, NewTask(SubSeq(q, 1, n)))]

\* flush: drain the batch from the head of the queue and spawn its task.
\* Gives the queue and the futures after the flush.
flush(q, fs) ==
  LET n == flush_batch_size(q)
  IN  [queue |-> SubSeq(q, n + 1, Len(q)),
       futures |-> Append(fs, NewTask(SubSeq(q, 1, n)))]

\* flush always ends with Ok(()).
flush_result == Ok(0)

\* Mutant of send_return: one document reported per call, as the file and
\* stdout outputs do.
send_return_one(flushed) == IF flushed.ok THEN Ok(1) ELSE flushed

\* send: self.flush().await? ; Ok(0)
send_return(flushed) == IF flushed.ok THEN Ok(0) ELSE flushed

\* Mutant of threshold_met: the comparison is strict.
threshold_met_strict(q) == Len(q) > BATCH_SIZE

\* send: if self.queue.len() >= BATCH_SIZE
threshold_met(q) == Len(q) >= BATCH_SIZE

\* Mutant of Submit: send waits until every spawned task has finished.
Submit_waiting(doc) ==
  /\ mainpc = "open"
  /\ \A t \in 1..Len(futures) : futures[t].pc = "done"
  /\ LET pushed == Append(queue, doc)
         after == IF threshold_met(pushed)
                  THEN flush(pushed, futures)
                  ELSE [queue |-> pushed, futures |-> futures]
         flushed == IF threshold_met(pushed) THEN flush_result ELSE Ok(0)
     IN  /\ queue' = after.queue
         /\ futures' = after.futures
         /\ sendRet' = send_return(flushed)
  /\ submitted' = Append(submitted, doc)
  /\ UNCHANGED <<action, mainpc, closeRet, throttles, probe>>

\* send(value): push, flush at the threshold, return.
Submit(doc) ==
  /\ mainpc = "open"
  /\ LET pushed == Append(queue, doc)
         after == IF threshold_met(pushed)
                  THEN flush(pushed, futures)
                  ELSE [queue |-> pushed, futures |-> futures]
         flushed == IF threshold_met(pushed) THEN flush_result ELSE Ok(0)
     IN  /\ queue' = after.queue
         /\ futures' = after.futures
         /\ sendRet' = send_return(flushed)
  /\ submitted' = Append(submitted, doc)
  /\ UNCHANGED <<action, mainpc, closeRet, throttles, probe>>

\* close, up to join_all(self.futures).await: the unconditional flush.
Close ==
  /\ mainpc = "open"
  /\ queue' = flush(queue, futures).queue
  /\ futures' = flush(queue, futures).futures
  /\ mainpc' = "joining"
  /\ UNCHANGED <<action, submitted, sendRet, closeRet, throttles, probe>>

\* Mutant of joined: close does not wait for the tasks.
joined_at_once(fs) == TRUE

\* join_all completes when every JoinHandle has.
joined(fs) == \A t \in 1..Len(fs) : fs[t].pc = "done"

\* .filter_map(Result::ok).filter_map(|r| match r { Ok(c) => Some(c), Err => None })
contribution(result) == IF result.tag = "ok" THEN result.count ELSE 0

\* Mutant of sum_counts: the sum stops at the first task that failed.
RECURSIVE sum_counts_until_error(_)
sum_counts_until_error(fs) ==
  IF fs = <<>>
  THEN 0
  ELSE IF Head(fs).result.tag # "ok"
       THEN 0
       ELSE Head(fs).result.count + sum_counts_until_error(Tail(fs))

RECURSIVE sum_counts(_)
sum_counts(fs) ==
  IF fs = <<>> THEN 0 ELSE contribution(Head(fs).result) + sum_counts(Tail(fs))

\* Mutant of close_return: a failed task's error is returned by close.
close_return_propagating(flushed, fs) ==
  IF flushed.ok /\ \A t \in 1..Len(fs) : fs[t].result.tag = "ok"
  THEN Ok(sum_counts(fs))
  ELSE Err("task failed")

\* close: self.flush().await?; ..; Ok(doc_count)
close_return(flushed, fs) == IF flushed.ok THEN Ok(sum_counts(fs)) ELSE flushed

\* close, from join_all's completion to its return.
Join ==
  /\ mainpc = "joining"
  /\ joined(futures)
  /\ closeRet' = close_return(flush_result, futures)
  /\ mainpc' = "closed"
  /\ UNCHANGED <<action, queue, futures, submitted, sendRet, throttles, probe>>

\* ------------------------------------------------------------- the tasks

\* Mutant of begin_attempt: attempt is set to 1 at every loop head.
begin_attempt_restarting(task) ==
  LET ops == build_bulk_operations(action, task.docs)
  IN  IF ops.ok
      THEN [task EXCEPT !.attempt = 1, !.pc = "awaiting",
                        !.calls = @ + 1, !.payload = ops.val, !.last = NoLast]
      ELSE [task EXCEPT !.attempt = 1, !.pc = "done", !.result = TaskErr,
                        !.last = NoLast, !.error = ops.err]

\* Mutant of begin_attempt: the task encodes its batch together with what
\* the queue holds at the time of the attempt.
begin_attempt_from_queue(task) ==
  LET ops == build_bulk_operations(action, task.docs \o queue)
  IN  IF ops.ok
      THEN [task EXCEPT !.attempt = @ + 1, !.pc = "awaiting",
                        !.calls = @ + 1, !.payload = ops.val, !.last = NoLast]
      ELSE [task EXCEPT !.attempt = @ + 1, !.pc = "done", !.result = TaskErr,
                        !.last = NoLast, !.error = ops.err]

\* The loop head of a task: attempt += 1, encode the batch, issue the bulk
\* call. An encoding error ends the task (the ? operator) before any call.
begin_attempt(task) ==
  LET ops == build_bulk_operations(action, task.docs)
  IN  IF ops.ok
      THEN [task EXCEPT !.attempt = @ + 1, !.pc = "awaiting",
                        !.calls = @ + 1, !.payload = ops.val, !.last = NoLast]
      ELSE [task EXCEPT !.attempt = @ + 1, !.pc = "done", !.result = TaskErr,
                        !.last = NoLast, !.error = ops.err]

\* Mutant of Attempt: the task puts its batch back at the tail of the
\* queue when it starts an attempt.
Attempt_requeueing(t) ==
  /\ futures[t].pc = "ready"
  /\ futures' = [futures EXCEPT ![t] = begin_attempt(futures[t])]
  /\ queue' = queue \o futures[t].docs
  /\ UNCHANGED <<action, mainpc, submitted, sendRet, closeRet, throttles, probe>>

Attempt(t) ==
  /\ futures[t].pc = "ready"
  /\ futures' = [futures EXCEPT ![t] = begin_attempt(futures[t])]
  /\ UNCHANGED <<action, queue, mainpc, submitted, sendRet, closeRet, throttles, probe>>

\* What the claims count as accepted in a body: items keyed create with
\* status 201, items keyed index with status 200 or 201.
AcceptedItems(body) ==
  Cardinality({i \in 1..Len(body.items) :
                 \/ body.items[i].key = "create" /\ body.items[i].status = 201
                 \/ body.items[i].key = "index" /\ body.items[i].status \in {200, 201}})

\* The items keyed update with status 200 or 201.
UpdatedItems(body) ==
  Cardinality({i \in 1..Len(body.items) :
                 body.items[i].key = "update" /\ body.items[i].status \in {200, 201}})

Summary(status, body) ==
  [kind |-> "response", status |-> status, decoded |-> Decodes(body),
   errors |-> (body.errors = "true"), accepted |-> AcceptedItems(body),
   updated |-> UpdatedItems(body)]

\* Mutant of on_status: the sleep of the 429 arm never ends.
on_status_sleeping_forever(task, status, body) ==
  CASE status = BAD_REQUEST ->
         [task EXCEPT !.pc = "done", !.result = TaskOk(0)]
    [] status = TOO_MANY_REQUESTS ->
         [task EXCEPT !.pc = "stalled", !.slept = Append(@, task.backoff)]
    [] OTHER ->
         [task EXCEPT !.pc = "done", !.result = TaskOk(success_count(body))]

\* Mutant of on_status: a 400 is retried like a 429.
on_status_retry_400(task, status, body) ==
  CASE status \in {BAD_REQUEST, TOO_MANY_REQUESTS} ->
         [task EXCEPT !.pc = "sleeping", !.slept = Append(@, task.backoff)]
    [] OTHER ->
         [task EXCEPT !.pc = "done", !.result = TaskOk(success_count(body))]

\* Mutant of on_status: the items accepted in throttled responses are
\* added to the final count.
on_status_accumulating(task, status, body) ==
  CASE status = BAD_REQUEST ->
         [task EXCEPT !.pc = "done", !.result = TaskOk(0)]
    [] status = TOO_MANY_REQUESTS ->
         [task EXCEPT !.pc = "sleeping", !.slept = Append(@, task.backoff),
                      !.result.count = @ + success_count(body)]
    [] OTHER ->
         [task EXCEPT !.pc = "done",
                      !.result = TaskOk(task.result.count + success_count(body))]

\* Mutant of on_status: a response that reports errors counts for nothing.
on_status_errors_zero(task, status, body) ==
  CASE status = BAD_REQUEST ->
         [task EXCEPT !.pc = "done", !.result = TaskOk(0)]
    [] status = TOO_MANY_REQUESTS ->
         [task EXCEPT !.pc = "sleeping", !.slept = Append(@, task.backoff)]
    [] OTHER ->
         [task EXCEPT !.pc = "done",
                      !.result = TaskOk(IF has_errors(body) THEN 0 ELSE success_count(body))]

\* match status_code { BAD_REQUEST => return Ok(0), TOO_MANY_REQUESTS =>
\* sleep and loop, _ => return Ok(success_count) }, on a decoded response.
on_status(task, status, body) ==
  CASE status = BAD_REQUEST ->
         [task EXCEPT !.pc = "done", !.result = TaskOk(0)]
    [] status = TOO_MANY_REQUESTS ->
         [task EXCEPT !.pc = "sleeping", !.slept = Append(@, task.backoff)]
    [] OTHER ->
         [task EXCEPT !.pc = "done", !.result = TaskOk(success_count(body))]

\* Mutant of on_response: the status is matched before the body is
\* decoded, so a 429 is retried whatever its body.
on_response_status_first(task, status, body) ==
  LET seen == [task EXCEPT !.hist = Append(@, status), !.last = Summary(status, body)]
  IN  IF status = TOO_MANY_REQUESTS \/ Decodes(body)
      THEN on_status(seen, status, body)
      ELSE [seen EXCEPT !.pc = "done", !.result = TaskErr]

\* let status_code = response.status_code();
\* let bulk_response = response.json::<BulkResponse>().await?;
\* match status_code { .. }
on_response(task, status, body) ==
  LET seen == [task EXCEPT !.hist = Append(@, status), !.last = Summary(status, body)]
  IN  IF Decodes(body)
      THEN on_status(seen, status, body)
      ELSE [seen EXCEPT !.pc = "done", !.result = TaskErr]

\* Mutant of Receive: the backoff is shared, so a 429 received by one task
\* doubles the backoff of every task.
Receive_shared_backoff(t, status, body) ==
  /\ futures[t].pc = "awaiting"
  /\ throttles' = IF status = TOO_MANY_REQUESTS THEN throttles + 1 ELSE throttles
  /\ futures' = [u \in 1..Len(futures) |->
                   IF u = t
                   THEN on_response(futures[t], status, body)
                   ELSE IF status = TOO_MANY_REQUESTS
                        THEN [futures[u] EXCEPT !.backoff = next_backoff(@)]
                        ELSE futures[u]]
  /\ UNCHANGED <<action, queue, mainpc, submitted, sendRet, closeRet, probe>>

\* The bulk call returns a response.
Receive(t, status, body) ==
  /\ futures[t].pc = "awaiting"
  /\ throttles' = IF status = TOO_MANY_REQUESTS THEN throttles + 1 ELSE throttles
  /\ futures' = [futures EXCEPT ![t] = on_response(futures[t], status, body)]
  /\ UNCHANGED <<action, queue, mainpc, submitted, sendRet, closeRet, probe>>

\* client.bulk(..).send().await? fails: the task ends with the error.
TransportError(t) ==
  /\ futures[t].pc = "awaiting"
  /\ futures' = [futures EXCEPT ![t] =
                   [@ EXCEPT !.pc = "done", !.result = TaskErr,
                             !.last = [NoLast EXCEPT !.kind = "transport"]]]
  /\ UNCHANGED <<action, queue, mainpc, submitted, sendRet, closeRet, throttles, probe>>

\* The task panics inside the call: its JoinHandle yields Err(JoinError).
Panic(t) ==
  /\ futures[t].pc = "awaiting"
  /\ futures' = [futures EXCEPT ![t] =
                   [@ EXCEPT !.pc = "done", !.result = TaskPanicked,
                             !.last = [NoLast EXCEPT !.kind = "panic"]]]
  /\ UNCHANGED <<action, queue, mainpc, submitted, sendRet, closeRet, throttles, probe>>

\* sleep(backoff).await returns; the backoff is doubled up to the cap and
\* the loop starts over.
Wake(t) ==
  /\ futures[t].pc = "sleeping"
  /\ futures' = [futures EXCEPT ![t] =
                   [@ EXCEPT !.pc = "ready", !.backoff = next_backoff(@)]]
  /\ UNCHANGED <<action, queue, mainpc, submitted, sendRet, closeRet, throttles, probe>>

\* ------------------------------------------------- the engine: Spec

\* The store of the engine specification: it answers 200 or 429, with a
\* body that is not JSON, or with no item, or with one created item.
EngineStatuses == {200, TOO_MANY_REQUESTS}

EngineBodies ==
  {NotJson,
   Body(TRUE, "false", TRUE, <<>>),
   Body(TRUE, "false", TRUE, <<Item("create", 201, FALSE)>>)}

Next ==
  \/ \E doc \in InputDocs(Len(submitted) + 1) :
       Len(submitted) < MaxDocs /\ Submit(doc)
  \/ Close
  \/ Join
  \/ \E t \in 1..Len(futures) :
       \/ Attempt(t)
       \/ \E status \in EngineStatuses, body \in EngineBodies :
            /\ status = TOO_MANY_REQUESTS => throttles < EngineThrottles
            /\ Receive(t, status, body)
       \/ TransportError(t)
       \/ Panic(t)
       \/ Wake(t)

Spec == Init /\ [][Next]_vars

\* ------------------------------------------------ one task: SpecTask

\* A run whose input ends before the threshold is reached has exactly one
\* task, spawned by close; the store may answer it with any status and
\* body, and throttle it up to MaxThrottles times.
NextTask ==
  \/ \E doc \in InputDocs(Len(submitted) + 1) :
       Len(submitted) < BATCH_SIZE - 1 /\ Submit(doc)
  \/ Close
  \/ Join
  \/ \E t \in 1..Len(futures) :
       \/ Attempt(t)
       \/ \E status \in StatusCodes, body \in StoreBodies :
            /\ status = TOO_MANY_REQUESTS => throttles < MaxThrottles
            /\ Receive(t, status, body)
       \/ TransportError(t)
       \/ Panic(t)
       \/ Wake(t)

SpecTask == Init /\ [][NextTask]_vars

\* ------------------------------------------------- the fair specification

\* The engine fed one document more than a batch, so that a full batch and
\* the batch of close run side by side, under fair scheduling: a task that
\* can take a step eventually takes one (the runtime polls every spawned
\* task, every bulk call returns, every sleep ends), and close returns once
\* join_all has. The store stops answering 429 after EngineThrottles of
\* them.
LiveDocs == BATCH_SIZE + 1

LiveTasks == LiveDocs \div BATCH_SIZE + 1

\* A step of task t: the loop head, the return of its bulk call with a
\* response, or the end of its sleep.
TaskStep(t) ==
  /\ t \in 1..Len(futures)
  /\ \/ Attempt(t)
     \/ \E status \in EngineStatuses, body \in EngineBodies :
          /\ status = TOO_MANY_REQUESTS => throttles < EngineThrottles
          /\ Receive(t, status, body)
     \/ Wake(t)

NextLive ==
  \/ \E doc \in InputDocs(Len(submitted) + 1) :
       Len(submitted) < LiveDocs /\ Submit(doc)
  \/ Close
  \/ Join
  \/ \E t \in 1..Len(futures) :
       \/ Attempt(t)
       \/ \E status \in EngineStatuses, body \in EngineBodies :
            /\ status = TOO_MANY_REQUESTS => throttles < EngineThrottles
            /\ Receive(t, status, body)
       \/ TransportError(t)
       \/ Panic(t)
       \/ Wake(t)

SpecLive ==
  /\ Init
  /\ [][NextLive]_vars
  /\ \A t \in 1..LiveTasks : WF_vars(TaskStep(t))
  /\ WF_vars(Join)

\* ------------------------------------------------ the batch specification

\* The engine fed at most BATCH_SIZE documents of every kind: objects with
\* a string _id, without _id, with a number as _id, and arrays.
NextBatch ==
  \/ \E doc \in EncodeDocs(Len(submitted) + 1) :
       Len(submitted) < BATCH_SIZE /\ Submit(doc)
  \/ Close
  \/ Join
  \/ \E t \in 1..Len(futures) :
       \/ Attempt(t)
       \/ \E status \in EngineStatuses, body \in EngineBodies :
            /\ status = TOO_MANY_REQUESTS => throttles < EngineThrottles
            /\ Receive(t, status, body)
       \/ TransportError(t)
       \/ Panic(t)
       \/ Wake(t)

SpecBatch == Init /\ [][NextBatch]_vars

\* --------------------------------------------- the response specification

\* success_count, has_errors and error_counts applied to every response of
\* up to MaxResponseItems items.
ResponseItems ==
  {BulkResponseItem("create", "logs", 201, NoError),
   BulkResponseItem("create", "logs", 200, NoError),
   BulkResponseItem("create", "logs", 409, CausedBy("version_conflict", "exists")),
   BulkResponseItem("create", "metrics", 409, CausedBy("version_conflict", "exists")),
   BulkResponseItem("create", "logs", 409, BareError),
   BulkResponseItem("index", "logs", 200, NoError),
   BulkResponseItem("index", "logs", 201, NoError),
   BulkResponseItem("index", "logs", 400, CausedBy("mapper_parsing", "bad field")),
   BulkResponseItem("index", "logs", 400, CausedBy("mapper_parsing", "bad value")),
   BulkResponseItem("update", "logs", 200, NoError)}

ResponseBodies ==
  {NotJson}
    \cup {Body(TRUE, e, FALSE, <<>>) : e \in {"absent", "true", "false"}}
    \cup {Body(TRUE, e, TRUE, s) :
            e \in {"absent", "true", "false"},
            s \in SeqsUpTo(ResponseItems, MaxResponseItems)}

ResponseProbe(body) ==
  [kind |-> "response", body |-> body, done |-> FALSE, decoded |-> FALSE,
   success_count |-> 0, has_errors |-> FALSE, error_counts |-> <<>>]

InitResponse ==
  /\ Constructed
  /\ probe \in {ResponseProbe(body) : body \in ResponseBodies}

\* response.json::<BulkResponse>() and, on the BulkResponse it gives, the
\* three methods.
Interpret ==
  /\ probe.kind = "response"
  /\ ~probe.done
  /\ IF Decodes(probe.body)
     THEN \E rendered \in error_counts(probe.body) :
            probe' = [probe EXCEPT !.done = TRUE, !.decoded = TRUE,
                                   !.success_count = success_count(probe.body),
                                   !.has_errors = has_errors(probe.body),
                                   !.error_counts = rendered]
     ELSE probe' = [probe EXCEPT !.done = TRUE]
  /\ UNCHANGED <<action, queue, futures, mainpc, submitted, sendRet, closeRet, throttles>>

NextResponse == Interpret

SpecResponse == InitResponse /\ [][NextResponse]_vars

\* --------------------------------------------- the encoding specification

\* build_bulk_operations applied to every batch of up to MaxBatch documents
\* under every action.
RECURSIVE BatchesOf(_)
BatchesOf(n) ==
  IF n = 0
  THEN {<<>>}
  ELSE {Append(b, d) : b \in BatchesOf(n - 1), d \in EncodeDocs(n)}

EncodeProbe(docs) ==
  [kind |-> "encode", docs |-> docs, done |-> FALSE,
   ops |-> Ok(<<>>), lines |-> <<>>]

InitEncode ==
  /\ Constructed
  /\ probe \in {EncodeProbe(docs) : docs \in UNION {BatchesOf(n) : n \in 0..MaxBatch}}

\* build_bulk_operations(action, docs), and the lines of the operations it
\* gave.
Encode ==
  /\ probe.kind = "encode"
  /\ ~probe.done
  /\ LET ops == build_bulk_operations(action, probe.docs)
     IN  probe' = [probe EXCEPT !.done = TRUE, !.ops = ops,
                                !.lines = bulk_body_lines(ops.val)]
  /\ UNCHANGED <<action, queue, futures, mainpc, submitted, sendRet, closeRet, throttles>>

NextEncode == Encode

SpecEncode == InitEncode /\ [][NextEncode]_vars

\* ----------------------------------------------------------- the claims

\* The count a task reported, 0 for a task that ended without one.
Reported(t) == IF futures[t].result.tag = "ok" THEN futures[t].result.count ELSE 0

RECURSIVE ReportedUpTo(_)
ReportedUpTo(k) == IF k = 0 THEN 0 ELSE ReportedUpTo(k - 1) + Reported(k)

Failed(t) == futures[t].pc = "done" /\ futures[t].result.tag \in {"err", "panic"}

\* The sum of the counts held by the tasks of S.
RECURSIVE CountsOf(_)
CountsOf(S) ==
  IF S = {}
  THEN 0
  ELSE LET t == CHOOSE x \in S : TRUE
       IN  futures[t].result.count + CountsOf(S \ {t})

\* C1: the count close returns is at most the number of documents
\* submitted, whatever the store answers.
C1_CountNeverInflated ==
  mainpc = "closed" => closeRet.val <= Len(submitted)

\* C2: n submits and one close with capacity c give n \div c threshold
\* batches of exactly c documents followed by the close batch of n % c
\* documents, and close returns the sum of the counts reported for them.
C2_BatchesAndSum ==
  LET n == Len(submitted)
      full == n \div BATCH_SIZE
  IN  /\ mainpc = "open" =>
           /\ Len(futures) = full
           /\ \A t \in 1..full : Len(futures[t].docs) = BATCH_SIZE
      /\ mainpc # "open" =>
           /\ Len(futures) = full + 1
           /\ \A t \in 1..full : Len(futures[t].docs) = BATCH_SIZE
           /\ Len(futures[full + 1].docs) = n % BATCH_SIZE
      /\ mainpc = "closed" => closeRet.val = ReportedUpTo(full + 1)

\* Five documents at capacity 2 went out as 2, 2 and 1, and close summed
\* the three reported counts.
C2_Witness ==
  /\ mainpc = "closed"
  /\ Len(submitted) = 2 * BATCH_SIZE + 1
  /\ Len(futures) = 3
  /\ Len(futures[3].docs) = 1
  /\ \A t \in 1..3 : Reported(t) = 1
  /\ closeRet.val = 3

\* C3: close has returned only if every spawned task, the one of close's
\* own flush included, has terminated, and its value is the sum of the
\* counts of the tasks that ended with a count.
C3_CloseAfterAllTasks ==
  mainpc = "closed" =>
    /\ Len(futures) >= 1
    /\ \A t \in 1..Len(futures) : futures[t].pc = "done"
    /\ closeRet.val = ReportedUpTo(Len(futures))

\* close returned after three tasks, one of them throttled before it
\* succeeded, and two of them with a count.
C3_Witness ==
  /\ mainpc = "closed"
  /\ Len(futures) = 3
  /\ futures[1].slept # <<>>
  /\ futures[1].result = TaskOk(1)
  /\ futures[3].result = TaskOk(1)
  /\ closeRet.val >= 2

\* C4: send and close never return an error; a task that ended with a
\* transport, decode or encoding error or a panic adds 0 and the counts of
\* the other tasks are still summed.
C4_FailuresAbsorbed ==
  /\ Len(submitted) > 0 => sendRet.ok
  /\ mainpc = "closed" =>
       /\ closeRet.ok
       /\ closeRet.val = CountsOf({t \in 1..Len(futures) : ~Failed(t)})

\* close returned Ok(1) after one task failed to encode its batch, one
\* panicked and one reported a count.
C4_Witness ==
  /\ mainpc = "closed"
  /\ Len(futures) = 3
  /\ futures[1].result = TaskErr /\ futures[1].calls = 0
  /\ futures[2].result = TaskPanicked
  /\ futures[3].result = TaskOk(1)
  /\ closeRet = Ok(1)
  /\ sendRet.ok

\* C10: every send returns the count 0, whether or not it flushed and
\* whatever earlier batches reported.
C10_SubmitReturnsZero ==
  Len(submitted) > 0 => sendRet.ok /\ sendRet.val = 0

\* The send that filled the second batch returned 0 although the first
\* batch had already been confirmed.
C10_Witness ==
  /\ mainpc = "open"
  /\ Len(submitted) = 2 * BATCH_SIZE
  /\ queue = <<>>
  /\ Len(futures) = 2
  /\ futures[1].result = TaskOk(1)
  /\ sendRet = Ok(0)

\* The response that task t received last, if it has received one since
\* its last call.
LastStatus(t) == IF futures[t].last.kind = "response" THEN futures[t].last.status ELSE 0

\* The result of a task whose last response made it return the count.
CountedResult(t) ==
  IF futures[t].last.decoded THEN TaskOk(futures[t].last.accepted) ELSE TaskErr

\* C5: a 400 response ends the task with a contribution of 0 and is the
\* last HTTP exchange of its batch; a task whose first response is 400 has
\* made exactly one call.
C5_BadRequestEndsTask ==
  \A t \in 1..Len(futures) :
    \A i \in 1..Len(futures[t].hist) :
      futures[t].hist[i] = 400 =>
        /\ i = Len(futures[t].hist)
        /\ futures[t].pc = "done"
        /\ Reported(t) = 0
        /\ futures[t].calls = i
        /\ Len(futures[t].slept) = i - 1

\* A first response of 400 whose body lists an accepted item: one call, no
\* sleep, a count of 0.
C5_Witness ==
  \E t \in 1..Len(futures) :
    /\ futures[t].hist = <<400>>
    /\ futures[t].last.decoded /\ futures[t].last.accepted >= 1
    /\ futures[t].result = TaskOk(0)
    /\ futures[t].calls = 1
    /\ mainpc = "closed" /\ closeRet = Ok(0)

IsThrottledThenOk(hist) ==
  /\ Len(hist) >= 2
  /\ hist[Len(hist)] \in {200, 201}
  /\ \A i \in 1..(Len(hist) - 1) : hist[i] = 429

\* C6: a task answered by k >= 1 responses 429 and then a 200 or 201 has
\* made exactly k + 1 calls, has ended with the count of that last response
\* alone, and close adds that count once.
C6_ThrottledThenCountedOnce ==
  \A t \in 1..Len(futures) :
    IsThrottledThenOk(futures[t].hist) =>
      /\ futures[t].calls = Len(futures[t].hist)
      /\ futures[t].pc = "done"
      /\ futures[t].result = CountedResult(t)
      /\ mainpc = "closed" =>
           closeRet.val = CountsOf({u \in 1..Len(futures) : ~Failed(u)})

\* Two 429 responses, then a 200 with two accepted items: three calls and
\* a total of 2.
C6_Witness ==
  \E t \in 1..Len(futures) :
    /\ futures[t].hist = <<429, 429, 200>>
    /\ futures[t].calls = 3
    /\ futures[t].result = TaskOk(2)
    /\ mainpc = "closed"
    /\ closeRet = Ok(2)

RECURSIVE Pow2(_)
Pow2(n) == IF n = 0 THEN 1 ELSE 2 * Pow2(n - 1)

\* C7: the delay slept before the i-th retry of a task is min(2^(i-1), 30)
\* seconds.
C7_BackoffSequence ==
  \A t \in 1..Len(futures) :
    \A i \in 1..Len(futures[t].slept) :
      futures[t].slept[i] = (IF Pow2(i - 1) < 30 THEN Pow2(i - 1) ELSE 30)

\* A task has slept 1, 2, 4, 8, 16, 30 and 30 seconds.
C7_Witness ==
  \E t \in 1..Len(futures) :
    /\ Len(futures[t].slept) >= 7
    /\ futures[t].slept[5] = 16
    /\ futures[t].slept[6] = 30
    /\ futures[t].slept[7] = 30

\* C8: a 429 response never makes the task terminate, whatever its body.
C8_ThrottleNeverEndsTask ==
  \A t \in 1..Len(futures) : LastStatus(t) = 429 => futures[t].pc # "done"

C11_QueueBounded ==
  LET n == Len(submitted)
      full == n \div BATCH_SIZE
  IN  /\ Len(queue) <= BATCH_SIZE
      /\ n > 0 => Len(queue) < BATCH_SIZE
      /\ mainpc = "open" =>
           /\ Len(queue) = n % BATCH_SIZE
           /\ Len(futures) = full
           /\ \A t \in 1..Len(futures) : Len(futures[t].docs) = BATCH_SIZE
      /\ mainpc # "open" =>
           /\ queue = <<>>
           /\ Len(futures) >= 1
           /\ Len(futures[Len(futures)].docs) = n % BATCH_SIZE
           /\ Len(futures[Len(futures)].docs) \in 0..(BATCH_SIZE - 1)

\* The send that reached the threshold for the second time left the queue
\* empty and two batches of BATCH_SIZE documents; close then took the one
\* document submitted after it.
C11_Witness ==
  /\ mainpc = "joining"
  /\ Len(submitted) = 2 * BATCH_SIZE + 1
  /\ queue = <<>>
  /\ Len(futures) = 3
  /\ Len(futures[2].docs) = BATCH_SIZE
  /\ Len(futures[3].docs) = 1

\* C12: encoding a batch of n documents gives n operations and 2n lines,
\* an action line followed by a source line for each; the action line is
\* keyed create under Create, index under Index, and under Update (every
\* document having a string _id) update, with the _id of that document.
C12_TwoLinesPerDocument ==
  (probe.kind = "encode" /\ probe.done /\ probe.ops.ok) =>
    LET n == Len(probe.docs)
    IN  /\ Len(probe.ops.val) = n
        /\ Len(probe.lines) = 2 * n
        /\ \A i \in 1..n :
             /\ probe.lines[2 * i - 1].line = "action"
             /\ probe.lines[2 * i].line = "source"
             /\ action = "Create" => probe.lines[2 * i - 1].key = "create"
             /\ action = "Index" => probe.lines[2 * i - 1].key = "index"
             /\ action = "Update" =>
                  /\ probe.lines[2 * i - 1].key = "update"
                  /\ probe.docs[i].id.t = "string"
                  /\ probe.lines[2 * i - 1].id = probe.docs[i].id

\* A batch of MaxBatch documents with string ids was encoded under Update.
C12_Witness ==
  /\ probe.kind = "encode" /\ probe.done /\ probe.ops.ok
  /\ action = "Update"
  /\ Len(probe.docs) = MaxBatch
  /\ Len(probe.lines) = 2 * MaxBatch

\* C13: under Update the source line is {"doc": D'}, D' being the document
\* without its _id and otherwise unchanged; under Create and Index the
\* source line is the document itself, its _id included.
C13_SourceLine ==
  (probe.kind = "encode" /\ probe.done /\ probe.ops.ok) =>
    \A i \in 1..Len(probe.docs) :
      LET source == probe.lines[2 * i]
          doc == probe.docs[i]
      IN  IF action = "Update"
          THEN /\ source.wrapped
               /\ source.doc.id = IdAbsent
               /\ source.doc.shape = doc.shape
               /\ source.doc.message = doc.message
          ELSE /\ ~source.wrapped
               /\ source.doc = doc

\* An update whose document had a string _id: the source line is wrapped
\* and has no _id.
C13_Witness ==
  /\ probe.kind = "encode" /\ probe.done /\ probe.ops.ok
  /\ action = "Update"
  /\ Len(probe.docs) >= 1
  /\ probe.docs[1].id.t = "string"
  /\ probe.lines[2].wrapped
  /\ probe.lines[2].doc.id = IdAbsent

\* A document update_operation_from_doc can encode.
Updatable(doc) == doc.shape = "object" /\ doc.id.t = "string"

\* The encoding errors whose message names _id.
NamesId ==
  {"Update action requires an _id field on each document",
   "Update action requires _id to be a string"}

\* The first document of docs that cannot be encoded under Update.
FirstBad(docs) ==
  docs[CHOOSE i \in 1..Len(docs) :
         /\ ~Updatable(docs[i])
         /\ \A j \in 1..(i - 1) : Updatable(docs[j])]

\* An attempt under Update encodes the batch iff every document is an
\* object with a string _id; otherwise nothing of the batch is sent and the
\* task ends having contributed 0.
FailFast(t) ==
  LET task == futures[t]
      valid == \A i \in 1..Len(task.docs) : Updatable(task.docs[i])
  IN  /\ valid <=> task.calls >= 1
      /\ valid => task.error = ""
      /\ ~valid =>
           /\ task.pc = "done"
           /\ task.result = TaskErr
           /\ task.payload = <<>>
           /\ task.hist = <<>>
           /\ task.error # ""
           /\ Reported(t) = 0
           /\ mainpc = "closed" =>
                closeRet.val = CountsOf({u \in 1..Len(futures) : u # t})

\* C14 as stated: whichever document makes the batch fail, the error names
\* _id.
C14_ErrorAlwaysNamesId ==
  \A t \in 1..Len(futures) :
    (action = "Update" /\ futures[t].attempt >= 1) =>
      /\ FailFast(t)
      /\ futures[t].error # "" => futures[t].error \in NamesId

\* C14, amended: the error names _id when the first offending document is
\* an object without _id or with an _id that is not a string; when it is
\* not an object the error says that each document must be a JSON object.
C14_FailFast ==
  \A t \in 1..Len(futures) :
    (action = "Update" /\ futures[t].attempt >= 1) =>
      /\ FailFast(t)
      /\ futures[t].error # "" =>
           IF FirstBad(futures[t].docs).shape = "object"
           THEN futures[t].error \in NamesId
           ELSE futures[t].error =
                  "Update action requires each document to be a JSON object"

\* A full batch whose first document is valid and whose second has no _id
\* failed without a call, and close has returned.
C14_Witness ==
  /\ action = "Update"
  /\ mainpc = "closed"
  /\ Len(futures) >= 1
  /\ Len(futures[1].docs) = BATCH_SIZE
  /\ Updatable(futures[1].docs[1])
  /\ futures[1].docs[BATCH_SIZE].id.t = "absent"
  /\ futures[1].docs[BATCH_SIZE].shape = "object"
  /\ futures[1].error \in NamesId
  /\ futures[1].calls = 0
  /\ closeRet.val = 0

\* C15: success_count of a decoded response is the number of its items
\* keyed create with status 201 or keyed index with status 200 or 201; it
\* is 0 when the response has no items array.
C15_SuccessCount ==
  (probe.kind = "response" /\ probe.done /\ probe.decoded) =>
    /\ probe.success_count = AcceptedItems(probe.body)
    /\ ~probe.body.hasItems => probe.success_count = 0

\* Three items, of which a create with status 200 is not counted.
C15_Witness ==
  /\ probe.kind = "response" /\ probe.done /\ probe.decoded
  /\ Len(probe.body.items) = 3
  /\ probe.body.items[1] = BulkResponseItem("create", "logs", 200, NoError)
  /\ probe.body.items[2] = BulkResponseItem("create", "logs", 201, NoError)
  /\ probe.body.items[3] = BulkResponseItem("index", "logs", 200, NoError)
  /\ probe.success_count = 2

\* C16: the response to a batch sent under Update, holding m items keyed
\* update with status 200 (or 201), ends the task with a contribution of m
\* beside whatever its create and index items add.
C16_UpdateItemsCounted ==
  \A t \in 1..Len(futures) :
    (/\ action = "Update"
     /\ futures[t].last.kind = "response"
     /\ futures[t].last.status \notin {400, 429}
     /\ futures[t].last.updated >= 1) =>
      /\ futures[t].pc = "done"
      /\ Reported(t) = futures[t].last.updated + futures[t].last.accepted

\* The items of a body that the claims call failed: neither accepted as a
\* create or an index nor an update with status 200 or 201.
FailedItems(body) ==
  {i \in 1..Len(body.items) :
     LET item == body.items[i]
     IN  ~(\/ item.key = "create" /\ item.status = 201
           \/ item.key \in {"index", "update"} /\ item.status \in {200, 201})}

\* C17: of a response whose errors flag is true and of whose n items k are
\* failed, success_count is n - k, and with k >= 1 error_counts is not
\* empty and has an entry with the index of every failed item.
C17_FailedItemsListed ==
  (/\ probe.kind = "response" /\ probe.done
   /\ probe.body.json /\ probe.body.errors = "true" /\ probe.body.hasItems) =>
    LET n == Len(probe.body.items)
        failed == FailedItems(probe.body)
    IN  /\ probe.decoded
        /\ probe.success_count = n - Cardinality(failed)
        /\ failed # {} =>
             /\ probe.error_counts # <<>>
             /\ \A i \in failed :
                  \E e \in 1..Len(probe.error_counts) :
                    /\ probe.error_counts[e].k[2] = probe.body.items[i].index
                    /\ probe.body.items[i].error.present =>
                         /\ probe.error_counts[e].k[4] = probe.body.items[i].error.type
                         /\ probe.error_counts[e].k[6] = probe.body.items[i].error.reason

\* C18: the payload of every call of a task holds the documents of its
\* batch in the order of their submission, an action line and a source line
\* for each, on the first attempt and on every retry.
C18_PayloadInSubmissionOrder ==
  \A t \in 1..Len(futures) :
    futures[t].calls >= 1 =>
      LET docs == futures[t].docs
          lines == bulk_body_lines(futures[t].payload)
      IN  /\ Len(lines) = 2 * Len(docs)
          /\ \A i \in 1..Len(docs) :
               /\ docs[i] = submitted[(t - 1) * BATCH_SIZE + i]
               /\ lines[2 * i - 1].line = "action"
               /\ lines[2 * i].line = "source"
               /\ lines[2 * i].doc.message = docs[i].message
               /\ action = "Update" => lines[2 * i - 1].id = docs[i].id

\* The second call of a full batch, after a 429, is in flight.
C18_Witness ==
  /\ Len(futures) >= 1
  /\ Len(futures[1].docs) = BATCH_SIZE
  /\ futures[1].hist = <<429>>
  /\ futures[1].calls = 2
  /\ futures[1].pc = "awaiting"
  /\ Len(futures[1].payload) = BATCH_SIZE

\* C19: a task whose every call was answered by a 429 response has not
\* terminated, and close has not returned.
C19_ThrottledTaskNeverEnds ==
  \A t \in 1..Len(futures) :
    (/\ futures[t].hist # <<>>
     /\ \A i \in 1..Len(futures[t].hist) : futures[t].hist[i] = 429
     /\ futures[t].last.kind \notin {"transport", "panic"}) =>
      /\ futures[t].pc # "done"
      /\ mainpc # "closed"

\* C20: under fair scheduling, with calls that return and a store that
\* stops answering 429, every spawned task terminates and close, once
\* called, returns.
C20_EveryTaskEndsAndCloseReturns ==
  /\ \A t \in 1..LiveTasks :
       (Len(futures) >= t) ~> (Len(futures) >= t /\ futures[t].pc = "done")
  /\ (mainpc = "joining") ~> (mainpc = "closed")

\* close has returned after a task that was throttled, slept and was then
\* answered.
C20_Witness ==
  /\ mainpc = "closed"
  /\ Len(futures) = LiveTasks
  /\ futures[1].hist = <<429, 200>>
  /\ futures[1].pc = "done"
  /\ futures[LiveTasks].pc = "done"

\* The operations ops are those of the documents docs, one each and in
\* order.
SameDocuments(ops, docs) ==
  /\ Len(ops) = Len(docs)
  /\ \A i \in 1..Len(docs) :
       IF action = "Update"
       THEN /\ ops[i].id = docs[i].id
            /\ ops[i].source = [docs[i] EXCEPT !.id = IdAbsent]
       ELSE ops[i].source = docs[i]

\* C21: a task's batch is what its flush drained from the queue and never
\* changes afterwards; every call of the task sends the operations of
\* exactly that batch, in order, whatever has been submitted since; the
\* payload of a task changes only when that task makes a call.
C21_TaskOwnsItsBatch ==
  [][/\ \A t \in 1..Len(futures) :
          /\ futures'[t].docs = futures[t].docs
          /\ futures'[t].calls # futures[t].calls =>
               SameDocuments(futures'[t].payload, futures[t].docs)
          /\ futures'[t].calls = futures[t].calls =>
               futures'[t].payload = futures[t].payload
     /\ Len(futures') > Len(futures) =>
          futures'[Len(futures')].docs \o queue' =
            (IF Len(submitted') > Len(submitted)
             THEN Append(queue, submitted'[Len(submitted')])
             ELSE queue)]_vars

\* The first batch is being sent for the second time while a document
\* submitted after its flush waits in the queue.
C21_Witness ==
  /\ Len(futures) >= 1
  /\ Len(submitted) = BATCH_SIZE + 1
  /\ Len(queue) = 1
  /\ futures[1].calls = 2
  /\ futures[1].pc = "awaiting"
  /\ SameDocuments(futures[1].payload, SubSeq(submitted, 1, BATCH_SIZE))

\* The tasks that have been spawned and have not finished.
InFlight == {t \in 1..Len(futures) : futures[t].pc # "done"}

\* send can be called and returns, whatever the tasks are doing; the task
\* a send spawns is unfinished when the send returns.
SubmitNeverWaits ==
  /\ [](mainpc = "open" =>
          ENABLED (\E doc \in InputDocs(Len(submitted) + 1) : Submit(doc)))
  /\ [][(Len(futures') > Len(futures) /\ mainpc' = "open") =>
          /\ futures'[Len(futures')].pc = "ready"
          /\ sendRet' = Ok(0)]_vars

FinalCount(t) ==
  LET last == futures[t].last
  IN  IF last.kind = "response" /\ last.decoded /\ last.status \notin {400, 429}
      THEN last.accepted
      ELSE 0

RECURSIVE FinalTotal(_)
FinalTotal(k) == IF k = 0 THEN 0 ELSE FinalTotal(k - 1) + FinalCount(k)

\* C23: the value close returns is determined by the final outcome of each
\* batch alone, so it is the same for every interleaving of the tasks'
\* sends, retries and completions.
C23_TotalFromFinalOutcomes ==
  mainpc = "closed" => closeRet = Ok(FinalTotal(Len(futures)))

\* Three batches: the first was throttled and answered after its retry, the
\* second was answered at once, and close returned the two counts.
C23_Witness ==
  /\ mainpc = "closed"
  /\ Len(futures) = 3
  /\ futures[1].hist = <<429, 200>> /\ futures[1].result = TaskOk(1)
  /\ futures[2].hist = <<200>> /\ futures[2].result = TaskOk(1)
  /\ futures[3].result = TaskErr
  /\ closeRet = Ok(2)

\* The last exchange of task t failed in transport or gave a body that
\* does not decode.
Broken(t) ==
  \/ futures[t].last.kind = "transport"
  \/ futures[t].last.kind = "response" /\ ~futures[t].last.decoded

\* C24: a transport failure or an undecodable body ends the task at that
\* attempt, after any number of throttled attempts and whatever the status;
\* the batch counts for nothing, send can still be called and the other
\* tasks can still take their steps.
C24_FailureEndsOnlyItsTask ==
  \A t \in 1..Len(futures) :
    Broken(t) =>
      /\ futures[t].pc = "done"
      /\ futures[t].result = TaskErr
      /\ Reported(t) = 0
      /\ futures[t].calls =
           Len(futures[t].hist) + (IF futures[t].last.kind = "transport" THEN 1 ELSE 0)
      /\ mainpc = "closed" =>
           closeRet = Ok(CountsOf({u \in 1..Len(futures) : u # t}))
      /\ mainpc = "open" =>
           ENABLED (\E doc \in InputDocs(Len(submitted) + 1) : Submit(doc))
      /\ \A u \in 1..Len(futures) :
           /\ futures[u].pc = "ready" => ENABLED Attempt(u)
           /\ futures[u].pc = "sleeping" => ENABLED Wake(u)

\* The first batch was throttled and then answered with a body that does
\* not decode; the second batch was counted and close returned its count.
C24_Witness ==
  /\ mainpc = "closed"
  /\ Len(futures) = 3
  /\ futures[1].hist = <<429, 200>>
  /\ ~futures[1].last.decoded
  /\ futures[1].result = TaskErr
  /\ futures[1].calls = 2
  /\ futures[2].result = TaskOk(1)
  /\ closeRet = Ok(1)

\* The items of a body that carry an error object.
WithError(body) == {i \in 1..Len(body.items) : body.items[i].error.present}

RECURSIVE SumOfCounts(_)
SumOfCounts(entries) ==
  IF entries = <<>> THEN 0 ELSE Head(entries).v + SumOfCounts(Tail(entries))

\* C25: error_counts has one entry for each distinct pair of index and
\* cause type among the items carrying an error, with the number of those
\* items as its count, whatever their reasons; the counts sum to the number
\* of items carrying an error.
C25_TallyByIndexAndType ==
  (/\ probe.kind = "response" /\ probe.done /\ probe.decoded
   /\ probe.body.errors = "true" /\ probe.body.hasItems) =>
    LET items == probe.body.items
        failing == WithError(probe.body)
        pairs == {<<items[i].index, items[i].error.type>> : i \in failing}
    IN  /\ Len(probe.error_counts) = Cardinality(pairs)
        /\ \A p \in pairs :
             \E e \in 1..Len(probe.error_counts) :
               /\ probe.error_counts[e].k[2] = p[1]
               /\ probe.error_counts[e].k[4] = p[2]
               /\ probe.error_counts[e].v =
                    Cardinality({i \in failing :
                                   items[i].index = p[1] /\ items[i].error.type = p[2]})
        /\ SumOfCounts(probe.error_counts) = Cardinality(failing)

\* C26: has_errors is true exactly when the errors field is present and
\* true, and error_counts is empty whenever has_errors is false, whatever
\* errors the items carry.
C26_ErrorsFlagGatesCounts ==
  (probe.kind = "response" /\ probe.done /\ probe.decoded) =>
    /\ probe.has_errors <=> probe.body.errors = "true"
    /\ probe.body.errors \in {"absent", "false"} => ~probe.has_errors
    /\ ~probe.has_errors => probe.error_counts = <<>>

\* A response without the errors flag whose only item carries an error.
C26_Witness ==
  /\ probe.kind = "response" /\ probe.done /\ probe.decoded
  /\ probe.body.errors = "absent"
  /\ Len(probe.body.items) = 1
  /\ probe.body.items[1].error.present
  /\ ~probe.has_errors
  /\ probe.error_counts = <<>>

\* C27: the queue changes only in a step of send or close; a step in
\* which a task changes leaves the queue as it was.
C27_OnlyCallerChangesQueue ==
  [][/\ queue' # queue =>
          \/ Len(submitted') = Len(submitted) + 1
          \/ mainpc = "open" /\ mainpc' = "joining"
     /\ (\E t \in 1..Len(futures) : futures'[t] # futures[t]) => queue' = queue]_vars

\* The first batch has been sent, throttled, sent again and answered while
\* the document submitted after its flush stayed in the queue.
C27_Witness ==
  /\ mainpc = "open"
  /\ Len(submitted) = BATCH_SIZE + 1
  /\ queue = <<submitted[BATCH_SIZE + 1]>>
  /\ Len(futures) = 1
  /\ futures[1].hist = <<429, 200>>
  /\ futures[1].pc = "done"

\* C28: while a call of a task is in flight, attempt is the number of calls
\* the task has made, this one included: 1 at the first call and one more
\* after each 429.
C28_AttemptCountsCalls ==
  \A t \in 1..Len(futures) :
    futures[t].pc = "awaiting" =>
      /\ futures[t].attempt = futures[t].calls
      /\ futures[t].attempt = Len(futures[t].hist) + 1
      /\ \A i \in 1..Len(futures[t].hist) : futures[t].hist[i] = 429

\* The third call of a task, after two 429 responses.
C28_Witness ==
  /\ Len(futures) = 1
  /\ futures[1].pc = "awaiting"
  /\ futures[1].hist = <<429, 429>>
  /\ futures[1].attempt = 3

\* The batches of the first k tasks, one after the other.
RECURSIVE Batches(_)
Batches(k) == IF k = 0 THEN <<>> ELSE Batches(k - 1) \o futures[k].docs

\* C29: the batches in the order of their tasks, followed by the queue,
\* are the submitted documents; after close's flush the queue is empty and
\* the batches alone are the submitted documents, each once.
C29_NothingLostOrDuplicated ==
  /\ Batches(Len(futures)) \o queue = submitted
  /\ mainpc # "open" =>
       /\ queue = <<>>
       /\ Batches(Len(futures)) = submitted

\* close has flushed after submits that filled two batches and left one
\* document.
C29_Witness ==
  /\ mainpc = "joining"
  /\ Len(submitted) = 2 * BATCH_SIZE + 1
  /\ Len(futures) = 3
  /\ futures[1].docs \o futures[2].docs \o futures[3].docs = submitted
  /\ \A t \in 1..3 : futures[t].pc = "ready"

\* C30: close spawns a task even for an empty queue, so n submits and a
\* close give n \div BATCH_SIZE + 1 tasks; the task of an empty batch makes
\* a bulk call with no operation.
C30_CloseAlwaysSpawns ==
  LET n == Len(submitted)
  IN  /\ mainpc = "open" => Len(futures) = n \div BATCH_SIZE
      /\ mainpc # "open" =>
           /\ Len(futures) = n \div BATCH_SIZE + 1
           /\ n % BATCH_SIZE = 0 => futures[Len(futures)].docs = <<>>
      /\ \A t \in 1..Len(futures) :
           (futures[t].docs = <<>> /\ futures[t].pc # "ready") =>
             /\ futures[t].calls >= 1
             /\ futures[t].payload = <<>>
             /\ futures[t].error = ""

\* close without any submit: one task, whose call had no operation and was
\* answered.
C30_Witness ==
  /\ mainpc = "closed"
  /\ submitted = <<>>
  /\ Len(futures) = 1
  /\ futures[1].docs = <<>>
  /\ futures[1].calls = 1
  /\ futures[1].payload = <<>>
  /\ futures[1].hist = <<200>>

\* C31: a step in which a task receives a 429, or wakes from the sleep
\* that follows it, changes nothing of any other task; while a task sleeps
\* after a 429 every other task can take its next step (start its attempt,
\* receive its answer, wake) and send can be called.
C31_RetryStateIsPrivate ==
  /\ [][\A t \in 1..Len(futures) :
          (\/ futures'[t].hist = Append(futures[t].hist, 429)
           \/ futures[t].pc = "sleeping" /\ futures'[t].pc # "sleeping") =>
            /\ Len(futures') = Len(futures)
            /\ \A u \in 1..Len(futures) : u # t => futures'[u] = futures[u]
            /\ queue' = queue
            /\ mainpc' = mainpc]_vars
  /\ [](\A t \in 1..Len(futures) :
          futures[t].pc = "sleeping" =>
            /\ mainpc = "open" =>
                 ENABLED (\E doc \in InputDocs(Len(submitted) + 1) : Submit(doc))
            /\ \A u \in 1..Len(futures) :
                 /\ futures[u].pc = "ready" => ENABLED Attempt(u)
                 /\ futures[u].pc = "awaiting" =>
                      ENABLED (\E body \in EngineBodies : Receive(u, 200, body))
                 /\ futures[u].pc = "sleeping" => ENABLED Wake(u))

\* The first task sleeps after its 429 while the second, spawned later, has
\* made its first call with the initial backoff and been answered, and a
\* further document has been accepted into the queue.
C31_Witness ==
  /\ mainpc = "open"
  /\ Len(futures) = 2
  /\ Len(queue) = 1
  /\ futures[1].pc = "sleeping" /\ futures[1].hist = <<429>>
  /\ futures[2].pc = "done" /\ futures[2].hist = <<200>>
  /\ futures[2].attempt = 1 /\ futures[2].backoff = 1

====
